---- MODULE Spec2Model ----
(***************************************************************************)
(* Model of the feather-tft-clock interaction core:                        *)
(*   - statemachine.py: StateMachine (transition table, handleGamepad,     *)
(*     updateDigits) editing the RTC one field at a time;                  *)
(*   - code.py: handle_input, elapsed_ms and the main event loop (gamepad  *)
(*     discovery, poll ticks, hold/repeat timers, RTC throttle).           *)
(* Three specifications share the variables:                               *)
(*   Spec     - the machine driven directly: any button, any repeat flag,  *)
(*              from a set of boundary RTC values;                         *)
(*   SpecLoop - the main loop of code.py driving the machine;              *)
(*   SpecLate - the same loop, started on an RTC value past the last time  *)
(*              the timestamp conversion accepts.                          *)
(***************************************************************************)
EXTENDS Integers, Sequences, FiniteSets, TLC

VARIABLES
    state,          \* StateMachine.state
    rtc,            \* the RTC chip's date and time (rtc.datetime)
    top,            \* charLCD top line, as last set by setMsg(msg)
    bottom,         \* charLCD bottom line, as last set by setMsg(msg, top=False)
    digits,         \* seven segment text, as last set by setDigits
    raised,         \* TRUE once an exception nobody catches has ended main()
    pc,             \* main(): "find" at the top of the outer loop, "poll" inside gp.poll()
    ticks,          \* supervisor.ticks_ms() at the last reading
    prev_ms,        \* main(): prev_ms
    rtc_ms,         \* main(): rtc_ms
    prevST,         \* main(): prevST
    need_refresh,   \* main(): need_refresh
    prev_btn,       \* main(): prev_btn, the set of buttons whose bits are set
    hold_tmr,       \* main(): hold_tmr
    repeat_tmr,     \* main(): repeat_tmr
    calls,          \* history: the handleGamepad calls of the last step
    tick,           \* history: what the last loop iteration saw and did
    nwr,            \* history: number of RTC writes so far that changed its value
    nsec,           \* history: seconds the RTC has counted by itself so far
    nticks          \* history: loop iterations so far

lvars == <<pc, ticks, prev_ms, rtc_ms, prevST, need_refresh, prev_btn,
           hold_tmr, repeat_tmr, tick, nticks>>
vars == <<state, rtc, top, bottom, digits, raised, pc, ticks, prev_ms, rtc_ms,
          prevST, need_refresh, prev_btn, hold_tmr, repeat_tmr, calls, tick,
          nwr, nsec, nticks>>

----------------------------------------------------------------------------
(* Bounds of the model *)

\* RTC writes that change its value, along one behaviour
MaxEdits == 1
\* seconds the RTC counts by itself along one behaviour
MaxSec == 1
\* iterations of the main loop explored along one behaviour
MaxTicks == 5

----------------------------------------------------------------------------
(* statemachine.py: constants *)

HHMM    == 0
MMSS    == 1
SetYr   == 2
SetMDay == 3
SetHour == 4
SetHMin == 5
SetSec  == 6

NOP    == 7
YrInc  == 8
YrDec  == 9
DayInc == 10
DayDec == 11
HrInc  == 12
HrDec  == 13
MinInc == 14
MinDec == 15
Sec00  == 16

UP    == 0
DOWN  == 1
LEFT  == 2
RIGHT == 3
A     == 4
B     == 5
START == 6

MenuStates == HHMM..SetSec
EditStates == SetYr..SetSec
ActionCodes == NOP..Sec00
EditCodes == YrInc..Sec00
MachineButtons == UP..START

\* the table of states and state transitions documented in the header comment
\* of statemachine.py, rows by state and columns by button, as written there
HEADER == <<
    <<"nop",    "nop",    "mmss",    "mmss",    "nop",     "hhmm", "setHMin">>,
    <<"nop",    "nop",    "hhmm",    "hhmm",    "nop",     "hhmm", "setHMin">>,
    <<"year+1", "year-1", "setSec",  "setMDay", "setMDay", "hhmm", "hhmm">>,
    <<"day+1",  "day-1",  "setYr",   "setHour", "setHour", "hhmm", "hhmm">>,
    <<"hour+1", "hour-1", "setMDay", "setHMin", "setHMin", "hhmm", "hhmm">>,
    <<"min+1",  "min-1",  "setHour", "setSec",  "setSec",  "hhmm", "hhmm">>,
    <<"sec=0",  "sec=0",  "setHMin", "setYr",   "setYr",   "hhmm", "hhmm">> >>

\* the names the header gives the states, in the order of the state constants
StateNames == <<"hhmm", "mmss", "setYr", "setMDay", "setHour", "setHMin", "setSec">>

\* a table whose setSec row sends A and RIGHT back to setHMin
MutTABLE == <<
    <<NOP,    NOP,    MMSS,    MMSS,    NOP,     HHMM, SetHMin>>,
    <<NOP,    NOP,    HHMM,    HHMM,    NOP,     HHMM, SetHMin>>,
    <<YrInc,  YrDec,  SetSec,  SetMDay, SetMDay, HHMM, HHMM>>,
    <<DayInc, DayDec, SetYr,   SetHour, SetHour, HHMM, HHMM>>,
    <<HrInc,  HrDec,  SetMDay, SetHMin, SetHMin, HHMM, HHMM>>,
    <<MinInc, MinDec, SetHour, SetSec,  SetSec,  HHMM, HHMM>>,
    <<Sec00,  Sec00,  SetHMin, SetHMin, SetHMin, HHMM, HHMM>> >>

\* the lookup table, rows indexed by state and columns by button
TABLE == <<
    <<NOP,    NOP,    MMSS,    MMSS,    NOP,     HHMM, SetHMin>>,
    <<NOP,    NOP,    HHMM,    HHMM,    NOP,     HHMM, SetHMin>>,
    <<YrInc,  YrDec,  SetSec,  SetMDay, SetMDay, HHMM, HHMM>>,
    <<DayInc, DayDec, SetYr,   SetHour, SetHour, HHMM, HHMM>>,
    <<HrInc,  HrDec,  SetMDay, SetHMin, SetHMin, HHMM, HHMM>>,
    <<MinInc, MinDec, SetHour, SetSec,  SetSec,  HHMM, HHMM>>,
    <<Sec00,  Sec00,  SetHMin, SetYr,   SetYr,   HHMM, HHMM>> >>

\* a lookup in a table whose setSec row holds codes one too high
MutResponse(s, button) ==
    IF s = SetSec /\ button \in {UP, DOWN, START}
    THEN TABLE[s + 1][button + 1] + 1
    ELSE TABLE[s + 1][button + 1]

\* a lookup that reads the LEFT column for RIGHT and the RIGHT column for LEFT
MutResponseSwap(s, button) ==
    TABLE[s + 1][(IF button = LEFT THEN RIGHT ELSE IF button = RIGHT THEN LEFT
                  ELSE button) + 1]

\* a lookup that finds the minute increment for UP in hhmm
MutResponseLive(s, button) ==
    IF s = HHMM /\ button = UP THEN MinInc ELSE TABLE[s + 1][button + 1]

\* r = self._TABLE[self.state][button]   (Python indexes from 0)
Response(s, button) == TABLE[s + 1][button + 1]

\* helper text
MSG_EMPTY    == <<"">>
SET_YEAR     == <<"   SET       YEAR">>
SET_MDAY     == <<"   SET  MONTH-DAY">>
SET_HOUR     == <<"   SET       HOUR">>
SET_MINUTES  == <<"   SET    MINUTES">>
SET_SECONDS  == <<"   SET    SECONDS">>
SET_HELP     == <<"DEL:+/-  B:Exit  A:OK">>
SET_HELP_SEC == <<"DEL:=00  B:Exit  A:OK">>

\* code.py: gamepad status text for the bottom line
GP_FIND  == <<"Finding USB gamepad">>
GP_READY == <<"gamepad ready">>

----------------------------------------------------------------------------
(* Calendar arithmetic done by time.mktime, datetime.fromtimestamp,        *)
(* datetime + timedelta and datetime.timetuple.  A date and time is a      *)
(* record of the six struct_time fields the program reads.                 *)

IsLeap(y) == (y % 4 = 0 /\ y % 100 # 0) \/ y % 400 = 0

DaysInMonth(y, m) ==
    IF m = 2 THEN (IF IsLeap(y) THEN 29 ELSE 28)
    ELSE IF m \in {4, 6, 9, 11} THEN 30 ELSE 31

LeapsBefore(y) == ((y - 1) \div 4) - ((y - 1) \div 100) + ((y - 1) \div 400)

\* days from 2000-01-01 to the first day of year y
DaysBeforeYear(y) == (y - 2000) * 365 + LeapsBefore(y) - LeapsBefore(2000)

DaysBeforeMonth(y, m) ==
    <<0, 31, 59, 90, 120, 151, 181, 212, 243, 273, 304, 334>>[m]
        + (IF m > 2 /\ IsLeap(y) THEN 1 ELSE 0)

ValidDate(st) ==
    /\ st.tm_mon \in 1..12
    /\ st.tm_mday \in 1..DaysInMonth(st.tm_year, st.tm_mon)
    /\ st.tm_hour \in 0..23
    /\ st.tm_min \in 0..59
    /\ st.tm_sec \in 0..59

\* time.mktime(st), counted from 2000-01-01 00:00:00 instead of 1970-01-01 to
\* keep the numbers within 32 bits: every timestamp of the model is shifted
\* by the same 946684800 seconds, MaxTimeT included
mktime(st) ==
    (((DaysBeforeYear(st.tm_year) + DaysBeforeMonth(st.tm_year, st.tm_mon)
        + (st.tm_mday - 1)) * 24 + st.tm_hour) * 60 + st.tm_min) * 60 + st.tm_sec

\* the year that day number `days` (0 = 2000-01-01) falls in
YearOfDay(days) ==
    LET y0 == 2000 + (days \div 366)
    IN  IF DaysBeforeYear(y0 + 1) <= days THEN y0 + 1 ELSE y0

\* the month that day yd (0 = January 1) of year y falls in
MonthOfDay(y, yd) ==
    CHOOSE mm \in 1..12 :
        /\ DaysBeforeMonth(y, mm) <= yd
        /\ yd < DaysBeforeMonth(y, mm) + DaysInMonth(y, mm)

\* the fields of second `rem` of day yd of year y
CivilFields(y, yd, rem) ==
    [tm_year |-> y, tm_mon |-> MonthOfDay(y, yd),
     tm_mday |-> yd - DaysBeforeMonth(y, MonthOfDay(y, yd)) + 1,
     tm_hour |-> rem \div 3600, tm_min |-> (rem % 3600) \div 60,
     tm_sec |-> rem % 60]

\* datetime.fromtimestamp(t), and the fields timetuple() gives back
fromtimestamp(t) ==
    CivilFields(YearOfDay(t \div 86400),
                (t \div 86400) - DaysBeforeYear(YearOfDay(t \div 86400)),
                t % 86400)

\* largest timestamp datetime.fromtimestamp converts, 2038-01-19 03:14:07:
\* 2^31 - 1 seconds after 1970-01-01, less the 946684800 seconds to 2000-01-01
MaxTimeT == 1200798847

\* now = _fromtimestamp(mktime(st)) raises OverflowError
ConversionFails(st) == st.tm_year < 2000 \/ mktime(st) > MaxTimeT

\* (now + timedelta(seconds=secs)).timetuple(), now = fromtimestamp(mktime(st))
PlusSeconds(st, secs) == fromtimestamp(mktime(fromtimestamp(mktime(st))) + secs)

----------------------------------------------------------------------------
(* statemachine.py: handleGamepad *)

YEAR_MAX == 2037
YEAR_MIN == 2001

\* a year increment that wraps to the lower bound instead of truncating
MutYrInc(year, repeat) ==
    LET n == IF repeat THEN 5 ELSE 1
    IN  IF year + n > YEAR_MAX THEN n ELSE n

nYrInc(year, repeat) ==
    LET n == IF repeat THEN 5 ELSE 1
    IN  IF year + n > YEAR_MAX THEN YEAR_MAX - year ELSE n

nYrDec(year, repeat) ==
    LET n == IF repeat THEN -5 ELSE -1
    IN  IF year + n < YEAR_MIN THEN YEAR_MIN - year ELSE n

\* a day increment without the December 31 truncation
MutDayInc(month, day, repeat) == IF repeat THEN 10 ELSE 1

nDayInc(month, day, repeat) ==
    LET n == IF repeat THEN 10 ELSE 1
    IN  IF month = 12 /\ day + n > 31 THEN 31 - day ELSE n

nDayDec(month, day, repeat) ==
    LET n == IF repeat THEN -10 ELSE -1
    IN  IF month = 1 /\ day + n < 1 THEN 1 - day ELSE n

nHrInc(hour, repeat) ==
    LET n == IF repeat THEN 4 ELSE 1
    IN  IF hour + n > 23 THEN 23 - hour ELSE n

nHrDec(hour, repeat) ==
    LET n == IF repeat THEN -4 ELSE -1
    IN  IF hour + n < 0 THEN 0 - hour ELSE n

\* a minute increment without the 23:59 truncation
MutMinInc(hour, min, repeat) == IF repeat THEN 10 ELSE 1

nMinInc(hour, min, repeat) ==
    LET n == IF repeat THEN 10 ELSE 1
    IN  IF hour = 23 /\ min + n > 59 THEN 59 - min ELSE n

nMinDec(hour, min, repeat) ==
    LET n == IF repeat THEN -10 ELSE -1
    IN  IF hour = 0 /\ min + n < 0 THEN 0 - min ELSE n

\* rounding that always rounds down
MutSecDelta(sec) == 0 - sec

secDelta(sec) == IF sec <= 30 THEN 0 - sec ELSE 60 - sec

\* the timedelta, in seconds, that response code r adds to the value read
EditSeconds(r, st, repeat) ==
    CASE r = YrInc  -> nYrInc(st.tm_year, repeat) * 365 * 86400
      [] r = YrDec  -> nYrDec(st.tm_year, repeat) * 365 * 86400
      [] r = DayInc -> nDayInc(st.tm_mon, st.tm_mday, repeat) * 86400
      [] r = DayDec -> nDayDec(st.tm_mon, st.tm_mday, repeat) * 86400
      [] r = HrInc  -> nHrInc(st.tm_hour, repeat) * 3600
      [] r = HrDec  -> nHrDec(st.tm_hour, repeat) * 3600
      [] r = MinInc -> nMinInc(st.tm_hour, st.tm_min, repeat) * 60
      [] r = MinDec -> nMinDec(st.tm_hour, st.tm_min, repeat) * 60
      [] r = Sec00  -> secDelta(st.tm_sec)

\* the two setMsg calls of a state transition to state r
TopFor(r) ==
    CASE r = SetYr   -> SET_YEAR
      [] r = SetMDay -> SET_MDAY
      [] r = SetHour -> SET_HOUR
      [] r = SetHMin -> SET_MINUTES
      [] r = SetSec  -> SET_SECONDS
      [] OTHER       -> MSG_EMPTY

\* transitions to hhmm and mmss that leave the bottom line as it is
MutBottomFor(r) ==
    CASE r \in {SetYr, SetMDay, SetHour, SetHMin} -> SET_HELP
      [] r = SetSec -> SET_HELP_SEC
      [] OTHER      -> bottom

BottomFor(r) ==
    CASE r \in {SetYr, SetMDay, SetHour, SetHMin} -> SET_HELP
      [] r = SetSec -> SET_HELP_SEC
      [] OTHER      -> MSG_EMPTY

\* history record of one handleGamepad call
CallRec(m, button, repeat, r, wrote, setmsg) ==
    [button |-> button, repeat |-> repeat, r |-> r, from |-> m.state,
     st |-> m.rtc, wrote |-> wrote, setmsg |-> setmsg]

\* _rtc.datetime = st, st the value an action code computed, in call c
WriteRTC(m, c, st) ==
    [m EXCEPT !.rtc = st,
              !.nwr = IF st = m.rtc THEN @ ELSE @ + 1,
              !.calls = Append(@, c)]

\* handleGamepad(button, repeat) on the machine and its collaborators m
handleGamepad(m, button, repeat) ==
    IF button < UP \/ button > START
    THEN [m EXCEPT !.calls = Append(@, CallRec(m, button, repeat, -1, FALSE, 0))]
    ELSE LET r == Response(m.state, button) IN
         IF r \in MenuStates
         THEN [m EXCEPT !.state = r, !.top = TopFor(r), !.bottom = BottomFor(r),
                        !.calls = Append(@, CallRec(m, button, repeat, r, FALSE, 2))]
         ELSE IF r = NOP
         THEN [m EXCEPT !.calls = Append(@, CallRec(m, button, repeat, r, FALSE, 0))]
         ELSE IF ConversionFails(m.rtc)
         THEN [m EXCEPT !.raised = TRUE,
                        !.calls = Append(@, CallRec(m, button, repeat, r, FALSE, 0))]
         ELSE IF r \in EditCodes
         THEN WriteRTC(m, CallRec(m, button, repeat, r, TRUE, 0),
                       PlusSeconds(m.rtc, EditSeconds(r, m.rtc, repeat)))
         ELSE [m EXCEPT !.calls = Append(@, CallRec(m, button, repeat, r, FALSE, 0))]

\* updateDigits(st): the text handed to setDigits, by state
DigitsFor(s, st) ==
    CASE s = HHMM  -> <<"  %02d:%02d", st.tm_hour, st.tm_min>>
      [] s = SetYr -> <<"   %04d", st.tm_year>>
      [] s = SetMDay -> <<"  %02d-%02d", st.tm_mon, st.tm_mday>>
      [] OTHER -> <<"%02d:%02d:%02d", st.tm_hour, st.tm_min, st.tm_sec>>

\* updateDigits(st): in mmss the date goes to the top line
TopAfterUpdate(s, st, t) ==
    IF s = MMSS THEN <<"%04d-%02d-%02d", st.tm_year, st.tm_mon, st.tm_mday>> ELSE t

----------------------------------------------------------------------------
(* The machine and its collaborators as one value *)

Machine == [state |-> state, rtc |-> rtc, top |-> top, bottom |-> bottom,
            raised |-> raised, calls |-> <<>>, nwr |-> nwr]

SetMachine(m) ==
    /\ state' = m.state
    /\ rtc' = m.rtc
    /\ top' = m.top
    /\ bottom' = m.bottom
    /\ raised' = m.raised
    /\ calls' = m.calls
    /\ nwr' = m.nwr

Date(y, mo, d, h, mi, s) ==
    [tm_year |-> y, tm_mon |-> mo, tm_mday |-> d,
     tm_hour |-> h, tm_min |-> mi, tm_sec |-> s]

----------------------------------------------------------------------------
(* code.py: handle_input, elapsed_ms *)

\* A button mask is modelled as the set of the buttons whose bits are set:
\* buttons == UP is buttons = {"UP"}, diff & UP is "UP" \in diff.
Pressed ==
    {{}, {"UP"}, {"DOWN"}, {"LEFT"}, {"RIGHT"}, {"A"}, {"B"}, {"START"}, {"UP", "A"}}

\* handle_input that repeats whatever single button is held
MutHandleInputAnyRepeat(m, prev, buttons, repeat) ==
    IF buttons = {"UP"} THEN handleGamepad(m, UP, repeat)
    ELSE IF buttons = {"DOWN"} THEN handleGamepad(m, DOWN, repeat)
    ELSE IF buttons = {"LEFT"} THEN handleGamepad(m, LEFT, repeat)
    ELSE IF buttons = {"A"} THEN handleGamepad(m, A, repeat)
    ELSE m

\* handle_input whose edge branch for A tests the changed bit only, without
\* the test that A is the only button pressed
MutHandleInputAnyMask(m, prev, buttons, repeat) ==
    LET diff == (prev \ buttons) \cup (buttons \ prev)
    IN  IF repeat
        THEN IF buttons = {"UP"} THEN handleGamepad(m, UP, TRUE)
             ELSE IF buttons = {"DOWN"} THEN handleGamepad(m, DOWN, TRUE)
             ELSE m
        ELSE IF "A" \in diff /\ "A" \in buttons THEN handleGamepad(m, A, FALSE)
             ELSE IF "B" \in diff /\ buttons = {"B"} THEN handleGamepad(m, B, FALSE)
             ELSE IF "UP" \in diff /\ buttons = {"UP"} THEN handleGamepad(m, UP, FALSE)
             ELSE IF "DOWN" \in diff /\ buttons = {"DOWN"}
                  THEN handleGamepad(m, DOWN, FALSE)
             ELSE IF "LEFT" \in diff /\ buttons = {"LEFT"}
                  THEN handleGamepad(m, LEFT, FALSE)
             ELSE IF "RIGHT" \in diff /\ buttons = {"RIGHT"}
                  THEN handleGamepad(m, RIGHT, FALSE)
             ELSE IF "START" \in diff /\ buttons = {"START"}
                  THEN handleGamepad(m, START, FALSE)
             ELSE m

handle_input(m, prev, buttons, repeat) ==
    LET diff ==(prev \ buttons) \cup (buttons \ prev)
    IN  IF repeat
        THEN IF buttons = {"UP"} THEN handleGamepad(m, UP, TRUE)
             ELSE IF buttons = {"DOWN"} THEN handleGamepad(m, DOWN, TRUE)
             ELSE m
        ELSE IF "A" \in diff /\ buttons = {"A"} THEN handleGamepad(m, A, FALSE)
             ELSE IF "B" \in diff /\ buttons = {"B"} THEN handleGamepad(m, B, FALSE)
             ELSE IF "UP" \in diff /\ buttons = {"UP"} THEN handleGamepad(m, UP, FALSE)
             ELSE IF "DOWN" \in diff /\ buttons = {"DOWN"}
                  THEN handleGamepad(m, DOWN, repeat)
             ELSE IF "LEFT" \in diff /\ buttons = {"LEFT"}
                  THEN handleGamepad(m, LEFT, FALSE)
             ELSE IF "RIGHT" \in diff /\ buttons = {"RIGHT"}
                  THEN handleGamepad(m, RIGHT, FALSE)
             ELSE IF "START" \in diff /\ buttons = {"START"}
                  THEN handleGamepad(m, START, FALSE)
             ELSE m

\* supervisor.ticks_ms() wraps at 2^29
TicksPeriod == 536870912

\* MASK = const(0x3fffffff)
MASK == 1073741823

\* (now - prev) & MASK on Python's unbounded two's complement integers
elapsed_ms(prev, now) == (now - prev) % (MASK + 1)

----------------------------------------------------------------------------
(* code.py: main *)

RTC_MS    == 100
DELAY_MS  == 900
REPEAT_MS == 300

\* milliseconds between two readings of ticks_ms() in the poll loop: less
\* than the RTC poll interval, and half the hold delay
Intervals == {50, 450}

\* milliseconds an iteration of the outer loop takes: the sleep(0.1), or the
\* discovery of the gamepad
FindIntervals == {100}

\* a clock check that need_refresh does not get past the RTC poll interval
MutCheckRTC(now_ms) ==
    LET read == elapsed_ms(rtc_ms, now_ms) >= RTC_MS
        show == read /\ (need_refresh \/ rtc # prevST)
    IN  [rtc_ms       |-> IF read THEN now_ms ELSE rtc_ms,
         prevST       |-> IF show THEN rtc ELSE prevST,
         digits       |-> IF show THEN DigitsFor(state, rtc) ELSE digits,
         top          |-> IF show THEN TopAfterUpdate(state, rtc, top) ELSE top,
         need_refresh |-> IF show THEN FALSE ELSE need_refresh,
         read         |-> read,
         show         |-> show]

\* "Check clock (RTC) and update time display if needed", at time now_ms
CheckRTC(now_ms) ==
    LET read == need_refresh \/ elapsed_ms(rtc_ms, now_ms) >= RTC_MS
        show == read /\ (need_refresh \/ rtc # prevST)
    IN  [rtc_ms       |-> IF read THEN now_ms ELSE rtc_ms,
         prevST       |-> IF show THEN rtc ELSE prevST,
         digits       |-> IF show THEN DigitsFor(state, rtc) ELSE digits,
         top          |-> IF show THEN TopAfterUpdate(state, rtc, top) ELSE top,
         need_refresh |-> IF show THEN FALSE ELSE need_refresh,
         read         |-> read,
         show         |-> show]

SetChecked(chk) ==
    /\ rtc_ms' = chk.rtc_ms
    /\ prevST' = chk.prevST
    /\ digits' = chk.digits

\* history record of one loop iteration: what it saw (the pressed set, the
\* values of the loop's variables and of the machine before it ran), what its
\* clock check did (read: rtc.datetime was read; show: updateDigits and
\* refresh were called; dirty1: need_refresh after the check), the number
\* of display refreshes it made, and about the hold in progress: pulses, the
\* repeat pulses since the pressed set last changed, and began, whether the
\* tick in which it changed made an edge call (both carried over unless the
\* iteration says otherwise)
TickRec(kind, buttons, interval, read, show, dirty1, refreshes) ==
    [kind |-> kind, buttons |-> buttons, prev |-> prev_btn, interval |-> interval,
     hold0 |-> hold_tmr, rep0 |-> repeat_tmr, dirty0 |-> need_refresh,
     ms0 |-> prev_ms, rtc_ms0 |-> rtc_ms, state0 |-> state, rtc0 |-> rtc,
     read |-> read, show |-> show, dirty1 |-> dirty1, refreshes |-> refreshes,
     pulses |-> tick.pulses, began |-> tick.began]

\* no iteration yet
NoTick ==
    [kind |-> "init", buttons |-> {}, prev |-> {}, interval |-> 0,
     hold0 |-> 0, rep0 |-> 0, dirty0 |-> FALSE,
     ms0 |-> prev_ms, rtc_ms0 |-> rtc_ms, state0 |-> state, rtc0 |-> rtc,
     read |-> FALSE, show |-> FALSE, dirty1 |-> FALSE, refreshes |-> 0,
     pulses |-> 0, began |-> FALSE]

\* a timer update that resets on release only, not when the pressed set changes
MutAccumulate(buttons, tmr, interval) ==
    IF buttons = {} THEN 0 ELSE tmr + interval

\* lines 211-219: the value of an accumulator after the timer update
Accumulate(buttons, tmr, interval) ==
    IF buttons = {} THEN 0
    ELSE IF prev_btn # buttons THEN 0
    ELSE tmr + interval

\* a repeat that fires as soon as the accumulator passes the repeat interval
MutFirstRepeat(hold, rep) == hold >= REPEAT_MS /\ hold = rep

\* lines 231-232: "First re-trigger event after initial delay"
FirstRepeat(hold, rep) == hold >= DELAY_MS /\ hold = rep

\* lines 231, 237: "Another re-trigger event after repeat interval"
NextRepeat(hold, rep) == hold >= DELAY_MS /\ hold # rep /\ rep >= REPEAT_MS

\* a pulse that sets the repeat accumulator back to zero
MutAfterPulse(rep, first, again) ==
    IF first \/ again THEN 0 ELSE rep

\* lines 234, 239: repeat_tmr after the pulse branches, rep being its value
\* after the timer update
AfterPulse(rep, first, again) ==
    IF first THEN rep - DELAY_MS
    ELSE IF again THEN rep - REPEAT_MS ELSE rep

\* one iteration of the inner loop: the body of `for buttons in gp.poll()`.
\* (\E x \in {e} names the value of e.)
PollTick(buttons, dt) ==
    /\ pc = "poll"
    /\ ~raised
    /\ nticks < MaxTicks
    /\ \E now_ms \in {(ticks + dt) % TicksPeriod} :
       \E interval \in {elapsed_ms(prev_ms, now_ms)} :
       \E hold1 \in {Accumulate(buttons, hold_tmr, interval)} :
       \E rep1 \in {Accumulate(buttons, repeat_tmr, interval)} :
       \E chk \in {CheckRTC(now_ms)} :
       \E first \in {FirstRepeat(hold1, rep1)} :
       \E again \in {NextRepeat(hold1, rep1)} :
       \E m1 \in {IF first \/ again
                   THEN handle_input([Machine EXCEPT !.top = chk.top],
                                     prev_btn, buttons, TRUE)
                   ELSE [Machine EXCEPT !.top = chk.top]} :
       \E edge \in {prev_btn # buttons /\ ~m1.raised} :
       \E m2 \in {IF edge THEN handle_input(m1, prev_btn, buttons, FALSE) ELSE m1} :
           /\ m2.nwr <= MaxEdits
           /\ ticks' = now_ms
           /\ prev_ms' = now_ms
           /\ hold_tmr' = hold1
           /\ repeat_tmr' = AfterPulse(rep1, first, again)
           /\ SetChecked(chk)
           /\ SetMachine(m2)
           /\ need_refresh' = (chk.need_refresh \/ ((first \/ again) /\ ~m1.raised)
                                  \/ (edge /\ ~m2.raised))
           /\ prev_btn' = IF m2.raised THEN prev_btn ELSE buttons
           /\ tick' = [TickRec("poll", buttons, interval, chk.read, chk.show,
                               chk.need_refresh, IF chk.show THEN 1 ELSE 0)
                          EXCEPT !.pulses = IF buttons = {} \/ prev_btn # buttons
                                            THEN 0
                                            ELSE @ + (IF first \/ again THEN 1 ELSE 0),
                                 !.began = IF buttons = {} THEN FALSE
                                           ELSE IF prev_btn # buttons
                                           THEN Len(m2.calls) > Len(m1.calls)
                                           ELSE @]
    /\ nticks' = nticks + 1
    /\ UNCHANGED <<pc, nsec>>

\* one iteration of the outer loop: check the clock, then try to find a gamepad;
\* find_and_configure() returns False, raises USBError, or returns True
OuterIter(outcome, dt) ==
    /\ pc = "find"
    /\ ~raised
    /\ nticks < MaxTicks
    /\ \E now_ms \in {(ticks + dt) % TicksPeriod} :
       \E chk \in {CheckRTC(now_ms)} :
           /\ ticks' = now_ms
           /\ SetChecked(chk)
           /\ top' = chk.top
           /\ need_refresh' = chk.need_refresh
           /\ bottom' = CASE outcome = "none"  -> bottom
                          [] outcome = "error" -> GP_FIND
                          [] outcome = "found" -> GP_READY
           /\ tick' = [TickRec(outcome, {}, 0, chk.read, chk.show, chk.need_refresh,
                               (IF chk.show THEN 1 ELSE 0)
                                   + (IF outcome = "none" THEN 0 ELSE 1))
                          EXCEPT !.pulses = IF outcome = "found" THEN 0 ELSE @,
                                 !.began = IF outcome = "found" THEN FALSE ELSE @]
    /\ IF outcome = "found"
       THEN /\ pc' = "poll"
            /\ prev_btn' = {}
            /\ hold_tmr' = 0
            /\ repeat_tmr' = 0
       ELSE UNCHANGED <<pc, prev_btn, hold_tmr, repeat_tmr>>
    /\ calls' = <<>>
    /\ nticks' = nticks + 1
    /\ UNCHANGED <<state, rtc, raised, prev_ms, nwr, nsec>>

\* a loss of the gamepad that also puts the machine back in hhmm
MutLostGamepad ==
    /\ pc = "poll"
    /\ ~raised
    /\ pc' = "find"
    /\ state' = HHMM
    /\ bottom' = GP_FIND
    /\ calls' = <<>>
    /\ tick' = TickRec("lost", {}, 0, FALSE, FALSE, need_refresh, 1)
    /\ UNCHANGED <<rtc, top, digits, raised, ticks, prev_ms, rtc_ms, prevST,
                   need_refresh, prev_btn, hold_tmr, repeat_tmr, nwr, nsec, nticks>>

\* the gamepad is lost while polling: gp.poll() ends or raises USBError
LostGamepad ==
    /\ pc = "poll"
    /\ ~raised
    /\ pc' = "find"
    /\ bottom' = GP_FIND
    /\ calls' = <<>>
    /\ tick' = TickRec("lost", {}, 0, FALSE, FALSE, need_refresh, 1)
    /\ UNCHANGED <<state, rtc, top, digits, raised, ticks, prev_ms, rtc_ms, prevST,
                   need_refresh, prev_btn, hold_tmr, repeat_tmr, nwr, nsec, nticks>>

\* the RTC chip counts one second
RtcSecond ==
    /\ ~raised
    /\ nsec < MaxSec
    /\ nsec' = nsec + 1
    /\ rtc' = fromtimestamp(mktime(rtc) + 1)
    /\ calls' = <<>>
    /\ tick' = TickRec("rtc", {}, 0, FALSE, FALSE, need_refresh, 0)
    /\ UNCHANGED <<state, top, bottom, digits, raised, pc, ticks, prev_ms, rtc_ms,
                   prevST, need_refresh, prev_btn, hold_tmr, repeat_tmr, nwr, nticks>>

----------------------------------------------------------------------------
(* Initial states *)

\* RTC values the machine is started on: dates around the year bounds, leap
\* days, month and year ends, and times of day around midnight, the hour
\* ends and the half minute
InitDates ==
    {Date(ymd[1], ymd[2], ymd[3], 12, 30, 15) :
        ymd \in {<<2001, 1, 1>>, <<2001, 1, 5>>, <<2005, 1, 1>>, <<2024, 1, 1>>,
                 <<2024, 2, 29>>, <<2024, 12, 25>>, <<2033, 12, 31>>,
                 <<2037, 12, 25>>, <<2037, 12, 31>>}}
    \cup {Date(2001, 1, 1, h, mi, 0) : h \in {0, 3}, mi \in {0, 5}}
    \cup {Date(2037, 12, 31, h, mi, 0) : h \in {21, 23}, mi \in {55, 59}}
    \cup {Date(2037, 12, 31, 23, 59, s) : s \in {30, 31, 59}}

\* state after StateMachine.__init__ and main() up to its outer loop
InitWith(dates, counters) ==
    /\ state = HHMM
    /\ rtc \in dates
    /\ top = MSG_EMPTY
    /\ bottom = GP_FIND
    /\ digits = DigitsFor(HHMM, rtc)
    /\ raised = FALSE
    /\ pc = "find"
    /\ ticks \in counters
    /\ prev_ms = ticks
    /\ rtc_ms = 0
    /\ prevST = rtc
    /\ need_refresh = FALSE
    /\ prev_btn = {}
    /\ hold_tmr = 0
    /\ repeat_tmr = 0
    /\ calls = <<>>
    /\ tick = NoTick
    /\ nwr = 0
    /\ nsec = 0
    /\ nticks = 0

----------------------------------------------------------------------------
(* Spec: the machine driven directly *)

Init == InitWith(InitDates, {1000})

\* arguments of a call: every button with either repeat flag, and a value
\* on each side of the button range
CallInputs == (MachineButtons \X BOOLEAN) \cup {<<UP - 1, FALSE>>, <<START + 1, FALSE>>}

\* one call of handleGamepad, with any button value and repeat flag
CallHandleGamepad ==
    /\ ~raised
    /\ \E call \in CallInputs :
       \E m \in {handleGamepad(Machine, call[1], call[2])} :
            /\ m.nwr <= MaxEdits
            /\ SetMachine(m)
    /\ UNCHANGED <<digits, nsec>>
    /\ UNCHANGED lvars

Next == CallHandleGamepad

Spec == Init /\ [][Next]_vars

----------------------------------------------------------------------------
(* SpecLoop: the main loop of code.py *)

\* the RTC value main() starts on (the example of code.py, line 141)
LoopDates == {Date(2024, 9, 14, 1, 23, 45)}

\* the tick counter when main() reaches its loop: 1.5 s before it wraps
LoopTicks == {TicksPeriod - 1500}

InitLoop == InitWith(LoopDates, LoopTicks)

NextLoop ==
    \/ \E outcome \in {"none", "error", "found"}, dt \in FindIntervals :
            OuterIter(outcome, dt)
    \/ \E buttons \in Pressed, dt \in Intervals : PollTick(buttons, dt)
    \/ LostGamepad
    \/ RtcSecond

SpecLoop == InitLoop /\ [][NextLoop]_vars

----------------------------------------------------------------------------
(* SpecLate: the main loop started on an RTC value the conversion rejects *)

\* an RTC value past 2038-01-19 03:14:07; the chip counts on to 2099, and the
\* program writes this one itself: Sec00 at 2037-12-31 23:59:31 gives
\* 2038-01-01 00:00:00, and two repeat day increments add 20 days
LateDates == {Date(2038, 1, 21, 0, 0, 0)}

InitLate == InitWith(LateDates, LoopTicks)

SpecLate == InitLate /\ [][NextLoop]_vars

----------------------------------------------------------------------------
(* Properties of handleGamepad, checked under Spec *)

Codes == MenuStates \cup ActionCodes

\* the last step was one handleGamepad call that wrote the RTC for code r
Wrote(r) == Len(calls) = 1 /\ calls[1].wrote /\ calls[1].r = r

SameDate(a, b) ==
    a.tm_year = b.tm_year /\ a.tm_mon = b.tm_mon /\ a.tm_mday = b.tm_mday

SameButField(a, b, f) ==
    \A g \in {"tm_year", "tm_mon", "tm_mday", "tm_hour", "tm_min", "tm_sec"} \ {f} :
        a[g] = b[g]

InRange(st) == ValidDate(st) /\ st.tm_year \in YEAR_MIN..YEAR_MAX

\* C1: in each of the 7 menu states every button of UP..START has a response
\* code in the table that is a state code or an action code, every call made
\* found such a code, and after any sequence of calls from hhmm the state is
\* still one of the 7 menu states.
C1_TableTotal ==
    /\ state \in MenuStates
    /\ \A button \in MachineButtons : Response(state, button) \in Codes
    /\ \A i \in 1..Len(calls) :
          calls[i].button \in MachineButtons => calls[i].r \in Codes

\* C1 witness: a call made in setSec, five states away from hhmm, moved on
C1_Witness ==
    Len(calls) = 1 /\ calls[1].from = SetSec /\ calls[1].button = A /\ state = SetYr

\* C2 (as claimed): a year, day, hour or minute edit of a valid RTC value
\* writes a value that differs from the value read in the edited field only.
C2_FieldIsolation ==
    \A i \in 1..Len(calls) :
        (calls[i].wrote /\ InRange(calls[i].st)) =>
            /\ calls[i].r \in {YrInc, YrDec} => SameButField(calls[i].st, rtc, "tm_year")
            /\ calls[i].r \in {DayInc, DayDec} => SameButField(calls[i].st, rtc, "tm_mday")
            /\ calls[i].r \in {HrInc, HrDec} => SameButField(calls[i].st, rtc, "tm_hour")
            /\ calls[i].r \in {MinInc, MinDec} => SameButField(calls[i].st, rtc, "tm_min")

\* C3: a year increment of a value with year in 2001..2037 never writes a
\* year above 2037 nor below the year read, a year decrement never writes a
\* year below 2001 nor above the year read, and the increment at 2037 and the
\* decrement at 2001 write back the value read.
C3_YearClamped ==
    \A i \in 1..Len(calls) :
        (calls[i].st.tm_year \in YEAR_MIN..YEAR_MAX) =>
            /\ calls[i].r = YrInc =>
                  /\ calls[i].wrote
                  /\ rtc.tm_year <= 2037
                  /\ rtc.tm_year >= calls[i].st.tm_year
                  /\ calls[i].st.tm_year = 2037 => rtc = calls[i].st
            /\ calls[i].r = YrDec =>
                  /\ calls[i].wrote
                  /\ rtc.tm_year >= 2001
                  /\ rtc.tm_year <= calls[i].st.tm_year
                  /\ calls[i].st.tm_year = 2001 => rtc = calls[i].st

\* C3 witness: a repeat increment at 2033 was truncated to four years
C3_Witness ==
    /\ Wrote(YrInc) /\ calls[1].repeat
    /\ calls[1].st.tm_year = 2033 /\ rtc.tm_year = 2037

\* C4 (as claimed): after any sequence of edits from a value with year in
\* 2001..2037, the RTC value is a valid date with year in 2001..2037.
C4_AlwaysInRange == InRange(rtc)

C6_NoCarryIntoDate ==
    \A i \in 1..Len(calls) :
        calls[i].wrote =>
            LET st == calls[i].st
                r  == calls[i].r
            IN  /\ r \in {DayInc, DayDec} => rtc.tm_year = st.tm_year
                /\ (r = DayInc /\ st.tm_mon = 12 /\ st.tm_mday = 31) => rtc = st
                /\ (r = DayDec /\ st.tm_mon = 1 /\ st.tm_mday = 1) => rtc = st
                /\ r \in {HrInc, HrDec, MinInc, MinDec} => SameDate(st, rtc)
                /\ r \in {HrInc, HrDec} => rtc.tm_hour \in 0..23
                /\ (r = MinInc /\ st.tm_hour = 23 /\ st.tm_min = 59) => rtc = st
                /\ (r = MinDec /\ st.tm_hour = 0 /\ st.tm_min = 0) => rtc = st

\* C6 witness: a repeat day increment on December 25 stopped at December 31
C6_Witness ==
    /\ Wrote(DayInc) /\ calls[1].repeat
    /\ calls[1].st.tm_mon = 12 /\ calls[1].st.tm_mday = 25
    /\ rtc.tm_mon = 12 /\ rtc.tm_mday = 31

\* C7: UP or DOWN in setSec, on a value the conversion accepts, makes one RTC
\* write that moves the time by -sec when sec <= 30 and by 60 - sec when
\* sec > 30; the seconds written are 0; on a value whose seconds are already
\* 0 the write gives back the value read; only setSec produces the action.
C7_RoundToMinute ==
    /\ \A i \in 1..Len(calls) :
          /\ calls[i].r = Sec00 => calls[i].from = SetSec
          /\ (calls[i].from = SetSec /\ calls[i].button \in {UP, DOWN}) =>
                calls[i].r = Sec00
    /\ (Len(calls) = 1 /\ calls[1].r = Sec00 /\ ~raised) =>
          LET st == calls[1].st
          IN  /\ calls[1].wrote
              /\ st.tm_sec <= 30 => mktime(rtc) = mktime(st) - st.tm_sec
              /\ st.tm_sec > 30 => mktime(rtc) = mktime(st) + 60 - st.tm_sec
              /\ rtc.tm_sec = 0
              /\ st.tm_sec = 0 => rtc = st

\* C7 witness: the action was applied to its own result, 12:30:15 rounded to
\* 12:30:00, and left it as it was
C7_Witness ==
    /\ Wrote(Sec00) /\ nwr = 1
    /\ calls[1].st.tm_min = 30 /\ calls[1].st.tm_sec = 0
    /\ rtc = calls[1].st

\* C8 (as claimed): when no clamp applies, an edge UP/DOWN changes the edited
\* field by exactly 1 unit and a repeat UP/DOWN by exactly 5 years, 10 days,
\* 4 hours or 10 minutes, in one RTC write.
C8_ExactStep ==
    (Len(calls) = 1 /\ calls[1].wrote /\ InRange(calls[1].st)) =>
        LET st  == calls[1].st
            r   == calls[1].r
            rep == calls[1].repeat
            big == CASE r \in {YrInc, YrDec}   -> 5
                     [] r \in {DayInc, DayDec} -> 10
                     [] r \in {HrInc, HrDec}   -> 4
                     [] OTHER                   -> 10
            n   == (IF rep THEN big ELSE 1)
                       * (IF r \in {YrInc, DayInc, HrInc, MinInc} THEN 1 ELSE -1)
        IN  /\ (r \in {YrInc, YrDec} /\ st.tm_year + n \in YEAR_MIN..YEAR_MAX) =>
                  rtc.tm_year = st.tm_year + n
            /\ (r \in {DayInc, DayDec}
                    /\ ~(st.tm_mon = 12 /\ st.tm_mday + n > 31)
                    /\ ~(st.tm_mon = 1 /\ st.tm_mday + n < 1)) =>
                  mktime(rtc) = mktime(st) + n * 86400
            /\ (r \in {HrInc, HrDec} /\ st.tm_hour + n \in 0..23) =>
                  mktime(rtc) = mktime(st) + n * 3600
            /\ (r \in {MinInc, MinDec}
                    /\ ~(st.tm_hour = 23 /\ st.tm_min + n > 59)
                    /\ ~(st.tm_hour = 0 /\ st.tm_min + n < 0)) =>
                  mktime(rtc) = mktime(st) + n * 60

----------------------------------------------------------------------------
(* Properties of the poll loop, checked under SpecLoop *)

Held == tick.kind = "poll" /\ tick.buttons # {} /\ tick.buttons = tick.prev

\* C9: after a poll tick whose pressed set is empty or differs from the
\* previous tick's, both accumulators are 0; after any other poll tick
\* hold_tmr has grown by the elapsed interval, and repeat_tmr by the interval
\* less the threshold of a pulse; while UP or DOWN is held alone, a tick that
\* leaves hold_tmr below 900 delivers no call, and the first tick that brings
\* hold_tmr to 900 or more delivers exactly one call, a repeat of that button.
C9_HoldTimers ==
    tick.kind = "poll" =>
        /\ ~Held => hold_tmr = 0 /\ repeat_tmr = 0
        /\ Held =>
              /\ hold_tmr = tick.hold0 + tick.interval
              /\ (tick.rep0 + tick.interval) - repeat_tmr
                    \in {0, DELAY_MS, REPEAT_MS}
        /\ (Held /\ tick.buttons \in {{"UP"}, {"DOWN"}}) =>
              /\ hold_tmr < 900 => calls = <<>>
              /\ (hold_tmr >= 900 /\ tick.hold0 < 900) =>
                    /\ Len(calls) = 1
                    /\ calls[1].repeat
                    /\ calls[1].button = (IF tick.buttons = {"UP"} THEN UP ELSE DOWN)
                    /\ repeat_tmr = hold_tmr - 900

\* C9 witness: UP held for exactly 900 ms delivered its first repeat
C9_Witness ==
    /\ Held /\ tick.buttons = {"UP"}
    /\ tick.hold0 = 450 /\ hold_tmr = 900
    /\ Len(calls) = 1 /\ calls[1].repeat /\ calls[1].button = UP

\* C10: a call with repeat=True is made only in a poll tick whose pressed set
\* is exactly UP or exactly DOWN, for that button; the calls of a tick whose
\* pressed set changed (the edge events) carry repeat=False; LEFT, RIGHT, A,
\* B and START are never called with repeat=True.
C10_RepeatOnlyUpDown ==
    \A i \in 1..Len(calls) :
        /\ calls[i].repeat =>
              /\ tick.kind = "poll"
              /\ \/ tick.buttons = {"UP"} /\ calls[i].button = UP
                 \/ tick.buttons = {"DOWN"} /\ calls[i].button = DOWN
        /\ tick.buttons # tick.prev => ~calls[i].repeat
        /\ calls[i].button \in {LEFT, RIGHT, A, B, START} => ~calls[i].repeat

\* C10 witness: DOWN held long enough was called with repeat=True
C10_Witness ==
    /\ Held /\ tick.buttons = {"DOWN"}
    /\ Len(calls) = 1 /\ calls[1].repeat /\ calls[1].button = DOWN

\* the seven buttons handle_input knows, and the machine's constant for each
ButtonNames == {"UP", "DOWN", "LEFT", "RIGHT", "A", "B", "START"}

ButtonCode(b) ==
    CASE b = "UP" -> UP [] b = "DOWN" -> DOWN [] b = "LEFT" -> LEFT
      [] b = "RIGHT" -> RIGHT [] b = "A" -> A [] b = "B" -> B [] b = "START" -> START

\* the edge events of the last step: its calls with repeat=False
EdgeCalls == {i \in 1..Len(calls) : ~calls[i].repeat}

\* C11: in a poll tick, a call with repeat=False for button b is made exactly
\* when b is among the buttons that differ from the previous tick's pressed
\* set and the pressed set is exactly {b}; there is at most one such call; a
\* tick whose pressed set is empty, holds two buttons, or equals the previous
\* tick's makes none.
C11_EdgeEvents ==
    tick.kind = "poll" =>
        /\ \A b \in ButtonNames :
              (\E i \in EdgeCalls : calls[i].button = ButtonCode(b))
                  <=> (/\ b \in (tick.prev \ tick.buttons) \cup (tick.buttons \ tick.prev)
                       /\ tick.buttons = {b})
        /\ Cardinality(EdgeCalls) <= 1
        /\ \A i \in EdgeCalls : calls[i].button \in MachineButtons
        /\ Cardinality(tick.buttons) # 1 => EdgeCalls = {}
        /\ tick.buttons = tick.prev => EdgeCalls = {}

\* C11 witness: the pressed set went from UP to A, and the one call made is
\* the edge event for A
C11_Witness ==
    /\ tick.kind = "poll" /\ tick.prev = {"UP"} /\ tick.buttons = {"A"}
    /\ Len(calls) = 1 /\ calls[1].button = A /\ ~calls[1].repeat

\* C12: a poll tick makes at most one handleGamepad call; a tick that makes a
\* repeat call is one whose pressed set did not change, so it makes no edge
\* call, and it subtracts one threshold only from the repeat accumulator.
C12_OneCallPerTick ==
    tick.kind = "poll" =>
        /\ Len(calls) <= 1
        /\ (\E i \in 1..Len(calls) : calls[i].repeat) =>
              /\ tick.buttons = tick.prev
              /\ EdgeCalls = {}
              /\ (tick.rep0 + tick.interval) - repeat_tmr \in {DELAY_MS, REPEAT_MS}

\* C12 witness: a second repeat pulse of a hold, by itself in its tick
C12_Witness ==
    /\ Held /\ tick.hold0 >= DELAY_MS /\ tick.rep0 # tick.hold0
    /\ Len(calls) = 1 /\ calls[1].repeat

\* an iteration of the outer loop: its clock check and find_and_configure()
OuterTick == tick.kind \in {"none", "error", "found"}

\* C13 (as claimed): the interval a poll tick computes from the counter
\* readings prev_ms and now_ms is (now_ms - prev_ms) mod 2^29, the counter's
\* period, also when the counter wrapped between the readings; and a clock
\* check that nothing forced reads the RTC only when at least 100 ms of the
\* counter's time, mod 2^29, have passed since the reading kept in rtc_ms.
C13_ElapsedModular ==
    /\ tick.kind = "poll" => tick.interval = (prev_ms - tick.ms0) % TicksPeriod
    /\ ((tick.kind = "poll" \/ OuterTick) /\ tick.read /\ ~tick.dirty0) =>
          (ticks - tick.rtc_ms0) % TicksPeriod >= RTC_MS

\* the poll ticks whose only calls found NOP in the table
NopTick ==
    /\ tick.kind = "poll"
    /\ calls # <<>>
    /\ \A i \in 1..Len(calls) : calls[i].r = NOP

\* C14 (as claimed): a poll tick whose button event has the response NOP
\* leaves the state and the RTC as they were, makes no setMsg call, and leaves
\* need_refresh clear, so that the next iteration is not made to call
\* updateDigits and refresh by it.
C14_NopNoRender ==
    NopTick =>
        /\ state = tick.state0
        /\ rtc = tick.rtc0
        /\ \A i \in 1..Len(calls) : ~calls[i].wrote /\ calls[i].setmsg = 0
        /\ ~need_refresh

\* C15 (as claimed): an edit action invoked on an RTC value whose conversion
\* fails writes nothing, leaves the state as it was, and main() goes on: no
\* exception ends it.
C15_EditDiscarded ==
    \A i \in 1..Len(calls) :
        (calls[i].r \in EditCodes /\ ConversionFails(calls[i].st)) =>
            /\ ~calls[i].wrote
            /\ rtc = calls[i].st
            /\ state = calls[i].from
            /\ ~raised

\* C16: the loss of the gamepad leaves the state and the RTC as they were,
\* makes no call and ends nothing: the loop is back at discovery; an iteration
\* of the outer loop leaves state and RTC alone too, reads the RTC when the
\* display is dirty or 100 ms have passed, and when it has read it the digits
\* are those of the RTC value; after find_and_configure() succeeded the loop
\* polls with prev_btn, hold_tmr and repeat_tmr at zero.
C16_GamepadLoss ==
    /\ tick.kind = "lost" =>
          /\ state = tick.state0 /\ rtc = tick.rtc0
          /\ calls = <<>>
          /\ ~raised /\ pc = "find"
    /\ OuterTick =>
          /\ state = tick.state0 /\ rtc = tick.rtc0
          /\ calls = <<>>
          /\ ~raised
          /\ tick.read = (tick.dirty0 \/ elapsed_ms(tick.rtc_ms0, ticks) >= RTC_MS)
          /\ tick.read => prevST = rtc /\ digits = DigitsFor(state, rtc)
          /\ pc = (IF tick.kind = "found" THEN "poll" ELSE "find")
    /\ tick.kind = "found" => prev_btn = {} /\ hold_tmr = 0 /\ repeat_tmr = 0

\* C16 witness: the gamepad was found again while the machine is in setSec,
\* which it can only have reached through an earlier connection
C16_Witness ==
    /\ tick.kind = "found" /\ state = SetSec /\ pc = "poll"
    /\ prev_btn = {} /\ hold_tmr = 0

\* C17: a poll tick that delivered an edit action leaves need_refresh set;
\* the loss of the gamepad and the RTC counting leave need_refresh as it is;
\* and a loop iteration (poll tick or outer iteration) that starts with
\* need_refresh set reads the RTC, calls updateDigits and refresh with the
\* value read, whatever time has passed since the last reading, and clears
\* need_refresh in the check.
C17_EditShownNext ==
    /\ (tick.kind = "poll" /\ ~raised
            /\ \E i \in 1..Len(calls) : calls[i].r \in EditCodes) => need_refresh
    /\ tick.kind \in {"lost", "rtc"} => need_refresh = tick.dirty0
    /\ ((tick.kind = "poll" \/ OuterTick) /\ tick.dirty0) =>
          /\ tick.read /\ tick.show /\ tick.refreshes >= 1
          /\ ~tick.dirty1
          /\ rtc_ms = ticks
          /\ prevST = tick.rtc0
          /\ digits = DigitsFor(tick.state0, tick.rtc0)

\* C17 witness: in setHMin the tick after an UP event, 50 ms after the last
\* RTC reading, showed the minute the edit wrote
C17_Witness ==
    /\ tick.kind = "poll" /\ tick.dirty0 /\ tick.state0 = SetHMin
    /\ tick.prev = {"UP"} /\ tick.interval = 50
    /\ elapsed_ms(tick.rtc_ms0, ticks) < RTC_MS
    /\ nwr = 1 /\ tick.show
    /\ digits = DigitsFor(SetHMin, tick.rtc0) /\ tick.rtc0.tm_min = 24

----------------------------------------------------------------------------
(* Properties of the transitions, checked under Spec *)

\* the state constant the header names, or -1 for nop and the field actions
StateNamed(name) ==
    IF \E s \in MenuStates : StateNames[s + 1] = name
    THEN CHOOSE s \in MenuStates : StateNames[s + 1] = name
    ELSE -1

\* C18: after handleGamepad(button, repeat) with a button of UP..START, the
\* state is the one the header table names for the state before and the
\* button, where that entry is a state, and the state before where the entry
\* is nop or a field action, whatever the repeat flag.
C18_HeaderTable ==
    \A i \in 1..Len(calls) :
        calls[i].button \in MachineButtons =>
            LET e == StateNamed(HEADER[calls[i].from + 1][calls[i].button + 1])
            IN  state = (IF e \in MenuStates THEN e ELSE calls[i].from)

\* C18 witness: LEFT in setYr, delivered with repeat=True, went to setSec
C18_Witness ==
    /\ Len(calls) = 1 /\ calls[1].button = LEFT /\ calls[1].repeat
    /\ calls[1].from = SetYr /\ state = SetSec

\* C19: after a call for B, from whatever state, the state is hhmm, the top
\* and bottom lines are the empty message, and the RTC was not written.
C19_BGoesHome ==
    \A i \in 1..Len(calls) :
        calls[i].button = B =>
            /\ state = HHMM
            /\ top = MSG_EMPTY /\ bottom = MSG_EMPTY
            /\ ~calls[i].wrote /\ rtc = calls[i].st

\* C19 witness: B in setSec, where both lines held helper text
C19_Witness ==
    /\ Len(calls) = 1 /\ calls[1].button = B /\ calls[1].from = SetSec
    /\ state = HHMM /\ top = MSG_EMPTY /\ bottom = MSG_EMPTY

NextField(s) == IF s = SetSec THEN SetYr ELSE s + 1

PrevField(s) == IF s = SetYr THEN SetSec ELSE s - 1

\* the state k presses of `button` lead to from state s, by the table
RECURSIVE After(_, _, _)
After(s, button, k) ==
    IF k = 0 \/ s \notin MenuStates THEN s
    ELSE After(Response(s, button), button, k - 1)

\* C20: START in hhmm or mmss enters setHMin; in an edit state A and RIGHT
\* enter the next field of the cycle setYr, setMDay, setHour, setHMin, setSec,
\* setYr, and LEFT the previous one; so from setHMin every edit state is
\* reached by at most four A presses, five A presses lead back to the edit
\* state they started in, and LEFT after RIGHT does too.
C20_EditCycle ==
    /\ \A i \in 1..Len(calls) :
          /\ (calls[i].from \in {HHMM, MMSS} /\ calls[i].button = START) =>
                state = SetHMin
          /\ (calls[i].from \in EditStates /\ calls[i].button \in {A, RIGHT}) =>
                state = NextField(calls[i].from)
          /\ (calls[i].from \in EditStates /\ calls[i].button = LEFT) =>
                state = PrevField(calls[i].from)
    /\ state \in EditStates =>
          /\ After(state, A, 5) = state
          /\ \A k \in 1..4 : After(state, A, k) # state
          /\ After(After(state, RIGHT, 1), LEFT, 1) = state
          /\ {After(SetHMin, A, k) : k \in 0..4} = EditStates

\* C20 witness: A in setSec closed the cycle at setYr
C20_Witness ==
    /\ Len(calls) = 1 /\ calls[1].button = A /\ ~calls[1].repeat
    /\ calls[1].from = SetSec /\ state = SetYr

----------------------------------------------------------------------------
(* Properties of a hold, checked under SpecLoop *)

\* C21: on every tick 0 <= repeat_tmr <= hold_tmr; a held tick that makes a
\* repeat pulse takes the threshold it passed off the repeat accumulator, 900
\* for the first pulse of the hold and 300 for a later one, and leaves what
\* is over; after k >= 1 pulses of a hold hold_tmr - repeat_tmr is
\* 900 + 300 * (k - 1), and k is at most 1 + (hold_tmr - 900) \div 300; with
\* no pulse yet the two accumulators are equal.
C21_RepeatAccumulator ==
    /\ 0 <= repeat_tmr /\ repeat_tmr <= hold_tmr
    /\ tick.pulses = 0 => hold_tmr = repeat_tmr
    /\ tick.pulses >= 1 =>
          /\ hold_tmr - repeat_tmr = DELAY_MS + REPEAT_MS * (tick.pulses - 1)
          /\ hold_tmr >= DELAY_MS
          /\ tick.pulses <= 1 + (hold_tmr - DELAY_MS) \div REPEAT_MS
    /\ (Held /\ tick.pulses = 1 /\ tick.hold0 = tick.rep0) =>
          repeat_tmr = tick.rep0 + tick.interval - DELAY_MS
    /\ (Held /\ tick.pulses >= 1 /\ tick.hold0 # tick.rep0) =>
          repeat_tmr \in {tick.rep0 + tick.interval,
                          tick.rep0 + tick.interval - REPEAT_MS}

\* C21 witness: the first pulse came at 950 ms and left 50 ms in the repeat
\* accumulator
C21_Witness ==
    /\ Held /\ tick.pulses = 1 /\ tick.hold0 = tick.rep0
    /\ hold_tmr = 950 /\ repeat_tmr = 50

\* C22 (as claimed): whenever the machine is in an edit state, the top line
\* is that state's SET label and the bottom line is the button legend.
C22_HelperText ==
    state \in EditStates => top = TopFor(state) /\ bottom = BottomFor(state)

----------------------------------------------------------------------------
(* Properties of the RTC writes, checked under Spec *)

\* C23: a call writes the RTC only from an edit state and for UP or DOWN,
\* and then it makes no setMsg call and the state and both text lines are
\* what they were; a call for LEFT, RIGHT, A, B or START, and any call made in
\* hhmm or mmss, writes nothing and leaves the RTC value as it was.
C23_WritesOnlyInEdit ==
    \A i \in 1..Len(calls) :
        /\ calls[i].wrote =>
              /\ calls[i].from \in EditStates
              /\ calls[i].button \in {UP, DOWN}
              /\ calls[i].r \in EditCodes
              /\ calls[i].setmsg = 0
              /\ state = calls[i].from
              /\ top = TopFor(state) /\ bottom = BottomFor(state)
        /\ (calls[i].button \notin {UP, DOWN} \/ calls[i].from \in {HHMM, MMSS}) =>
              ~calls[i].wrote /\ rtc = calls[i].st

\* C23 witness: DOWN in setMDay wrote another day and left state and text
C23_Witness ==
    /\ Wrote(DayDec) /\ calls[1].button = DOWN /\ calls[1].from = SetMDay
    /\ rtc # calls[1].st
    /\ state = SetMDay /\ top = SET_MDAY /\ bottom = SET_HELP

----------------------------------------------------------------------------
(* Properties of the repeat pulses, checked under SpecLoop *)

\* C24 (as claimed): a call with repeat=True is made only in a hold whose
\* first tick, the one in which the pressed set became the button, made the
\* edge call for it.
C24_RepeatAfterEdge ==
    \A i \in 1..Len(calls) : calls[i].repeat => tick.began

====
